---- MODULE Spec2Model ----
(***************************************************************************)
(* The CPUID container of vmm-vcpu (src/x86_64/mod.rs, src/x86_64.rs):     *)
(* a Vec<CpuId2> over-allocated to hold one 8-byte header followed by     *)
(* 40-byte CpuIdEntry2 slots, plus the recorded capacity allocated_len.    *)
(*                                                                         *)
(* Machine integers keep their wrap-around, at a reduced width: u32 is     *)
(* U32Bits wide and usize twice that (the x86_64 ratio 32:64), so that     *)
(* `as u32` truncation and usize overflow of count * size_of::<F>() are    *)
(* both reachable.  An entry is one abstract value (0 = all-zero default). *)
(*                                                                         *)
(* The Vcpu trait (src/vcpu.rs) is modelled as one handle shared by        *)
(* reference between threads: its exit-reason enums, result type and       *)
(* receivers are those of the source; what a backend does behind the       *)
(* declarations follows the contract's description.                        *)
(*                                                                         *)
(* The #[repr(C)] structs of src/x86_64/windows.rs are laid out field by   *)
(* field, in bytes at their real width.                                    *)
(***************************************************************************)
EXTENDS Integers, Sequences, FiniteSets, TLC

\* ---------------------------------------------------------------- widths
U32Bits == 7
UsizeBits == 2 * U32Bits
U32Mod == 2 ^ U32Bits
UsizeMod == 2 ^ UsizeBits
IsizeMax == (UsizeMod \div 2) - 1

\* size_of::<CpuId2>() and size_of::<CpuIdEntry2>()
SizeOfCpuId2 == 8
SizeOfCpuIdEntry2 == 40
MAX_CPUID_ENTRIES == 80

\* `x as u32` and wrapping usize arithmetic (release profile)
AsU32(x) == x % U32Mod
WrapUsize(x) == x % UsizeMod

Min(a, b) == IF a < b THEN a ELSE b

\* ---------------------------------------------------------------- inputs
MaxCap == 2
MaxLen == 2
EntryVals == {0, 1}

\* ------------------------------------------------------- the backing Vec
\* A Vec<CpuId2> of `len` 8-byte units: unit 0 is the header (nent, padding),
\* the units after it are read as whole 40-byte entry slots.
EntrySlots(len) ==
    IF len = 0 THEN 0
    ELSE ((len - 1) * SizeOfCpuId2) \div SizeOfCpuIdEntry2

Free == [live |-> FALSE, len |-> 0, nent |-> 0, padding |-> 0, entries |-> <<>>]

\* Vec::with_capacity(n) followed by n pushes of T::default()
DefaultVec(n) ==
    [live |-> TRUE, len |-> n, nent |-> 0, padding |-> 0,
     entries |-> [k \in 1..EntrySlots(n) |-> 0]]

vec_with_size_in_bytes(size_in_bytes) ==
    WrapUsize(size_in_bytes + SizeOfCpuId2 - 1) \div SizeOfCpuId2

vec_with_array_field(count) ==
    LET element_space == WrapUsize(count * SizeOfCpuIdEntry2)
        vec_size_bytes == WrapUsize(SizeOfCpuId2 + element_space)
    IN  vec_with_size_in_bytes(vec_size_bytes)

\* The three additions/multiplications above, checked (overflow-checks on):
\* TRUE when one of them exceeds usize::MAX and the build panics.
ArithOverflows(count) ==
    \/ count * SizeOfCpuIdEntry2 >= UsizeMod
    \/ SizeOfCpuId2 + count * SizeOfCpuIdEntry2 >= UsizeMod
    \/ SizeOfCpuId2 + count * SizeOfCpuIdEntry2 + SizeOfCpuId2 - 1 >= UsizeMod

\* Vec::with_capacity panics ("capacity overflow") above isize::MAX bytes;
\* cpuid_vec[0] panics on an empty Vec.
AllocPanics(count) ==
    \/ vec_with_array_field(count) * SizeOfCpuId2 > IsizeMax
    \/ vec_with_array_field(count) = 0

\* BadCap: the least capacity whose wrapped allocation holds fewer entry slots
\* than the truncated count written to nent.  ZeroCap: a capacity whose
\* allocation size wraps to 0 bytes.  HalfCap: count * 40 wraps to 0.
BadCap ==
    CHOOSE c \in 0..(UsizeMod - 1) :
        /\ ~AllocPanics(c)
        /\ EntrySlots(vec_with_array_field(c)) < Min(AsU32(c), c)
ZeroCap ==
    CHOOSE c \in 0..(UsizeMod - 1) : vec_with_array_field(c) = 0
HalfCap == UsizeMod \div 2

SmallCaps == 0..MaxCap
Capacities == SmallCaps \cup {MAX_CPUID_ENTRIES, U32Mod, HalfCap, ZeroCap, BadCap}

RECURSIVE SeqsUpTo(_)
SeqsUpTo(n) ==
    IF n = 0 THEN {<<>>}
    ELSE LET S == SeqsUpTo(n - 1)
         IN  S \cup {Append(s, v) : s \in {t \in S : Len(t) = n - 1}, v \in EntryVals}

\* Short entry sequences of every content, and one of 2^U32Bits entries.
SmallSeqs == SeqsUpTo(MaxLen)
EntrySeqs == SmallSeqs \cup {[k \in 1..U32Mod |-> 1]}

\* Values a backend leaves in nent: none, one, the largest u32.
NentVals == {0, 1, U32Mod - 1}

\* ------------------------------------------------------------- CpuId ops
Ids == {1, 2}
BufIds == {1, 2}

Null == [live |-> FALSE, cpuid_vec |-> 0, allocated_len |-> 0]

\* CpuId::new: the buffer it builds
NewVec(array_len) ==
    [DefaultVec(vec_with_array_field(array_len)) EXCEPT !.nent = AsU32(array_len)]

\* CpuId::new may panic instead of returning: always when the allocation is
\* refused or empty, and on arithmetic overflow when the build checks it.
NewPanics(array_len) == ArithOverflows(array_len) \/ AllocPanics(array_len)

\* CpuId::new may return: the allocation succeeds (overflow, if any, wrapped).
NewReturns(array_len) == ~AllocPanics(array_len)

\* CpuId::from_entries: the buffer it builds; as_mut_slice(len).copy_from_slice
FromEntriesVec(entries) ==
    LET v == DefaultVec(vec_with_array_field(Len(entries)))
    IN  [v EXCEPT !.nent = AsU32(Len(entries)),
                  !.entries = [k \in 1..Len(v.entries) |->
                                  IF k <= Len(entries) THEN entries[k] ELSE v.entries[k]]]

\* Faulty variants of mut_entries_slice: no clamp at all; the slice length read
\* before the clamp is applied; a clamp that tolerates one entry too many.
mut_entries_slice_noclamp(buf, allocated_len) ==
    [buf |-> buf, len |-> buf.nent]

mut_entries_slice_stale_len(buf, allocated_len) ==
    LET clamped == IF buf.nent > allocated_len
                   THEN [buf EXCEPT !.nent = AsU32(allocated_len)]
                   ELSE buf
    IN  [buf |-> clamped, len |-> buf.nent]

mut_entries_slice_off_by_one(buf, allocated_len) ==
    LET clamped == IF buf.nent > allocated_len + 1
                   THEN [buf EXCEPT !.nent = AsU32(allocated_len)]
                   ELSE buf
    IN  [buf |-> clamped, len |-> clamped.nent]

mut_entries_slice_zeroes_tail(buf, allocated_len) ==
    LET clamped == IF buf.nent > allocated_len
                   THEN [buf EXCEPT !.nent = AsU32(allocated_len)]
                   ELSE buf
        cleared == [clamped EXCEPT !.entries =
                       [k \in 1..Len(@) |-> IF k <= clamped.nent THEN @[k] ELSE 0]]
    IN  [buf |-> cleared, len |-> clamped.nent]

mut_entries_slice_always_resets(buf, allocated_len) ==
    LET clamped == [buf EXCEPT !.nent = AsU32(allocated_len)]
    IN  [buf |-> clamped, len |-> clamped.nent]

\* CpuId::mut_entries_slice: the buffer after the clamp and the slice length
mut_entries_slice(buf, allocated_len) ==
    LET clamped == IF buf.nent > allocated_len
                   THEN [buf EXCEPT !.nent = AsU32(allocated_len)]
                   ELSE buf
    IN  [buf |-> clamped, len |-> clamped.nent]

\* impl Clone: a fresh Vec of the same length, the bytes copied over it
Clone(self, h, fresh) ==
    LET src == h[self.cpuid_vec]
        dst == DefaultVec(src.len)
        copied == [dst EXCEPT !.nent = src.nent,
                              !.padding = src.padding,
                              !.entries = src.entries]
    IN  [container |-> [live |-> TRUE, cpuid_vec |-> fresh,
                        allocated_len |-> self.allocated_len],
         buffer |-> copied]

\* impl PartialEq: the two slice lengths it derives, both over self's buffer
EqSlices(self, other) == <<self.allocated_len, other.allocated_len>>

\* A slice of n entries over buf stays inside the Vec
InBounds(buf, n) == SizeOfCpuId2 + SizeOfCpuIdEntry2 * n <= SizeOfCpuId2 * buf.len

\* impl PartialEq: the results eq can produce.  `&&` short-circuits, so the
\* slices are compared only when the capacities agree; comparing a slice that
\* runs past the Vec is undefined and may produce either answer.
Eq(self, other, h) ==
    LET buf == h[self.cpuid_vec]
        n == EqSlices(self, other)[1]
        m == EqSlices(self, other)[2]
    IN  IF self.allocated_len # other.allocated_len THEN {FALSE}
        ELSE IF ~InBounds(buf, n) \/ ~InBounds(buf, m) THEN BOOLEAN
        ELSE {SubSeq(buf.entries, 1, n) = SubSeq(buf.entries, 1, m)}

\* ------------------------------------------------------- the Vcpu contract
\* The two operating-system families the exit-reason enum is compiled for.
Platforms == {"windows", "unix"}

\* #[cfg(windows)] pub enum VcpuExit
WindowsExits ==
    {"None", "MemoryAccess", "IoPortAccess", "UnrecoverableException",
     "InvalidVpRegisterValue", "UnsupportedFeature", "IrqWindowOpen", "Hlt",
     "IoapicEoi", "MsrAccess", "Cpuid", "Exception", "Canceled"}

\* the Unix exit reasons, with a Canceled tag added
UnixExits_with_canceled ==
    {"Unknown", "Exception", "IoOut", "IoIn", "Hypercall", "Debug", "Hlt",
     "MmioRead", "MmioWrite", "IrqWindowOpen", "Shutdown", "FailEntry", "Intr",
     "SetTpr", "TprAccess", "S390Sieic", "S390Reset", "Dcr", "Nmi",
     "InternalError", "Osi", "PaprHcall", "S390Ucontrol", "Watchdog",
     "S390Tsch", "Epr", "SystemEvent", "S390Stsi", "IoapicEoi", "Hyperv",
     "Canceled"}

\* #[cfg(unix)] pub enum VcpuExit<'a>
UnixExits ==
    {"Unknown", "Exception", "IoOut", "IoIn", "Hypercall", "Debug", "Hlt",
     "MmioRead", "MmioWrite", "IrqWindowOpen", "Shutdown", "FailEntry", "Intr",
     "SetTpr", "TprAccess", "S390Sieic", "S390Reset", "Dcr", "Nmi",
     "InternalError", "Osi", "PaprHcall", "S390Ucontrol", "Watchdog",
     "S390Tsch", "Epr", "SystemEvent", "S390Stsi", "IoapicEoi", "Hyperv"}

VcpuExit(platform) == IF platform = "windows" THEN WindowsExits ELSE UnixExits

\* The fields of a tuple variant, and the unit variant that has none.
With(first, data) == [has |-> TRUE, first |-> first, data |-> data]
NoPayload == [has |-> FALSE, first |-> "-", data |-> "-"]

\* a Windows enum whose two access exits carry (port or address, buffer) too
Payload_windows_io_carries(platform, tag) ==
    CASE tag \in {"IoOut", "IoPortAccess"} -> With("u16", "&[u8]")
      [] tag = "IoIn" -> With("u16", "&mut [u8]")
      [] tag = "MmioRead" -> With("u64", "&mut [u8]")
      [] tag \in {"MmioWrite", "MemoryAccess"} -> With("u64", "&[u8]")
      [] OTHER -> NoPayload

\* What each variant of VcpuExit holds: on Unix IoOut(u16, &[u8]),
\* IoIn(u16, &mut [u8]), MmioRead(u64, &mut [u8]), MmioWrite(u64, &[u8]);
\* every other variant, and every variant of the Windows enum, is a unit.
Payload(platform, tag) ==
    IF platform = "unix"
    THEN CASE tag = "IoOut" -> With("u16", "&[u8]")
           [] tag = "IoIn" -> With("u16", "&mut [u8]")
           [] tag = "MmioRead" -> With("u64", "&mut [u8]")
           [] tag = "MmioWrite" -> With("u64", "&[u8]")
           [] OTHER -> NoPayload
    ELSE NoPayload

\* pub type Result<T> = result::Result<T, io::Error>: a value of the Ok type,
\* or the one error type; an error carries no exit reason.
Ok(exit) == [ok |-> TRUE, exit |-> exit, err |-> "-"]
Err == [ok |-> FALSE, exit |-> "-", err |-> "io::Error"]

\* a result type whose error value may carry an exit reason as well
RunResults_error_with_exit(platform) ==
    {Ok(e) : e \in VcpuExit(platform)} \cup {Err}
        \cup {[ok |-> FALSE, exit |-> e, err |-> "io::Error"] : e \in VcpuExit(platform)}

\* fn run(&self) -> Result<VcpuExit>: the values of the return type
RunResults(platform) == {Ok(e) : e \in VcpuExit(platform)} \cup {Err}

\* The register sets of the x86 contract, each held as one abstract value.
RegisterSets == {"StandardRegisters", "SpecialRegisters", "FpuState", "LapicState"}
RegVals == {0, 1}

\* The threads that hold a reference to the one handle.
Threads == {1, 2}

\* The receiver every operation of the trait declares.
Receiver(op) == "&self"

\* Rust's borrow rule for a call on a handle on which the calls of `inflight`
\* have not returned: a shared receiver coexists with other shared borrows,
\* an exclusive one with none.
BorrowAllows(receiver, inflight) == receiver = "&self" \/ inflight = {}

\* a register write that always puts the handle back into Configured
PhaseAfterAccess_always_configured(phase) == "Configured"

\* Registers are inspected or mutated between runs: after an exit that returns
\* the handle to Configured; during a run the handle stays Running.
PhaseAfterAccess(phase) == IF phase = "Exited" THEN "Configured" ELSE phase

\* The handle is Running as long as a run() has not returned.
PhaseAfterReturn(inflight) == IF inflight = {} THEN "Exited" ELSE "Running"

\* a store that lands in the standard registers whatever set was named
StoreRegs_wrong_set(regs, set, val) == [regs EXCEPT !["StandardRegisters"] = val]

\* set_regs / set_sregs / set_fpu / set_lapic: the whole structure is replaced
StoreRegs(regs, set, val) == [regs EXCEPT ![set] = val]

\* The run context is identified by the serial of the exit it describes.
MaxRuns == 1
NextContext(ctx) == (ctx + 1) % (MaxRuns + 1)

\* What a cancelled run() returns: Canceled where the exit-reason enum has
\* the tag, any value of the return type otherwise.
CancelledResults(platform) ==
    IF "Canceled" \in VcpuExit(platform) THEN {Ok("Canceled")}
    ELSE RunResults(platform)

\* What run() returns, by how it ended: with an exit condition of the guest,
\* cancelled, or with the execution call failing.
ReturnsOf(how, platform) ==
    CASE how = "exit" -> {r \in RunResults(platform) : r.ok}
      [] how = "cancel" -> CancelledResults(platform)
      [] how = "fail" -> {r \in RunResults(platform) : ~r.ok}

\* The registers a run() leaves behind: untouched when it failed, otherwise
\* as they were or as the guest left them.
GuestOutcomes(regs, result) ==
    IF result.ok THEN {regs, [s \in RegisterSets |-> 1 - regs[s]]} ELSE {regs}

NewVcpu(platform) ==
    [platform |-> platform, phase |-> "Configured",
     regs |-> [s \in RegisterSets |-> 0], run_context |-> 0, inflight |-> {}]

NoCall == [op |-> "none", set |-> "-", val |-> 0, result |-> Ok("-"),
           how |-> "-", overlap |-> FALSE]

NoHist == [runs |-> 0,
           written |-> [valid |-> FALSE, set |-> "-", val |-> 0],
           seen |-> [open |-> FALSE, has |-> FALSE, val |-> 0]]

\* ------------------------------------------------------- #[repr(C)] layout
\* A type: a primitive, an array [elem; n], or a struct named by `name`.
P(name) == [kind |-> "prim", name |-> name, n |-> 0, elem |-> <<>>]
Arr(elem, n) == [kind |-> "array", name |-> "-", n |-> n, elem |-> <<elem>>]
S(name) == [kind |-> "struct", name |-> name, n |-> 0, elem |-> <<>>]

\* __IncompleteArrayField<T>(PhantomData<T>, [T; 0]): no bytes, aligned as T
IncompleteArrayField(elem) == Arr(elem, 0)

F(name, ty) == [name |-> name, ty |-> ty]

\* kvm_bindings' LAPIC structure, which the Unix builds re-export as
\* LapicState: pub struct kvm_lapic_state { pub regs: [c_char; 1024usize] }
kvm_lapic_state == <<F("regs", Arr(P("c_char"), 1024))>>

\* The fields of each struct, in declaration order.
Fields(struct) ==
    CASE struct = "StandardRegisters" ->
           <<F("rax", P("u64")), F("rbx", P("u64")), F("rcx", P("u64")),
             F("rdx", P("u64")), F("rsi", P("u64")), F("rdi", P("u64")),
             F("rsp", P("u64")), F("rbp", P("u64")), F("r8", P("u64")),
             F("r9", P("u64")), F("r10", P("u64")), F("r11", P("u64")),
             F("r12", P("u64")), F("r13", P("u64")), F("r14", P("u64")),
             F("r15", P("u64")), F("rip", P("u64")), F("rflags", P("u64"))>>
      [] struct = "SpecialRegisters" ->
           <<F("cs", S("SegmentRegister")), F("ds", S("SegmentRegister")),
             F("es", S("SegmentRegister")), F("fs", S("SegmentRegister")),
             F("gs", S("SegmentRegister")), F("ss", S("SegmentRegister")),
             F("tr", S("SegmentRegister")), F("ldt", S("SegmentRegister")),
             F("gdt", S("DescriptorTable")), F("idt", S("DescriptorTable")),
             F("cr0", P("u64")), F("cr2", P("u64")), F("cr3", P("u64")),
             F("cr4", P("u64")), F("cr8", P("u64")), F("efer", P("u64")),
             F("apic_base", P("u64")),
             F("interrupt_bitmap", Arr(P("u64"), 4))>>
      [] struct = "SegmentRegister" ->
           <<F("base", P("u64")), F("limit", P("u32")), F("selector", P("u16")),
             F("type_", P("u8")), F("present", P("u8")), F("dpl", P("u8")),
             F("db", P("u8")), F("s", P("u8")), F("l", P("u8")), F("g", P("u8")),
             F("avl", P("u8")), F("unusable", P("u8")), F("padding", P("u8"))>>
      [] struct = "DescriptorTable" ->
           <<F("base", P("u64")), F("limit", P("u16")),
             F("padding", Arr(P("u16"), 3))>>
      [] struct = "FpuState" ->
           <<F("fpr", Arr(Arr(P("u8"), 16), 8)), F("fcw", P("u16")),
             F("fsw", P("u16")), F("ftwx", P("u8")), F("pad1", P("u8")),
             F("last_opcode", P("u16")), F("last_ip", P("u64")),
             F("last_dp", P("u64")), F("xmm", Arr(Arr(P("u8"), 16), 16)),
             F("mxcsr", P("u32")), F("pad2", P("u32"))>>
      [] struct = "MsrEntry" ->
           <<F("index", P("u32")), F("reserved", P("u32")), F("data", P("u64"))>>
      [] struct = "MsrEntries" ->
           <<F("nmsrs", P("u32")), F("pad", P("u32")),
             F("entries", IncompleteArrayField(S("MsrEntry")))>>
      [] struct = "CpuIdEntry2" ->
           <<F("function", P("u32")), F("index", P("u32")), F("flags", P("u32")),
             F("eax", P("u32")), F("ebx", P("u32")), F("ecx", P("u32")),
             F("edx", P("u32")), F("padding", Arr(P("u32"), 3))>>
      [] struct = "CpuId2" ->
           <<F("nent", P("u32")), F("padding", P("u32")),
             F("entries", IncompleteArrayField(S("CpuIdEntry2")))>>
      [] struct = "LapicState" ->
           <<F("regs", Arr(P("c_char"), 4096))>>
      [] struct = "kvm_lapic_state" -> kvm_lapic_state

Structs ==
    {"StandardRegisters", "SpecialRegisters", "SegmentRegister", "DescriptorTable",
     "FpuState", "MsrEntry", "MsrEntries", "CpuIdEntry2", "CpuId2", "LapicState",
     "kvm_lapic_state"}

\* The two files that define module x86_64.
ModuleFiles == {"x86_64.rs", "x86_64/mod.rs"}

\* The type the name LapicState stands for: kvm_bindings' 1 KB structure
\* under #[cfg(unix)], the 4 KB structure declared here under #[cfg(windows)].
LapicStateOf(platform) ==
    IF platform = "windows" THEN "LapicState" ELSE "kvm_lapic_state"

\* The sizes that the vcpu_test_layout_lapic_state tests compiled into a
\* build assert: x86_64.rs carries one test, not conditional on the
\* platform; x86_64/mod.rs has its test in the windows module only.
LapicAssertedSizes(file, platform) ==
    IF file = "x86_64.rs" THEN {1024}
    ELSE IF platform = "windows" THEN {4096}
    ELSE {}

FieldNames(struct) == [k \in 1..Len(Fields(struct)) |-> Fields(struct)[k].name]

\* every 64-bit integer taken for a 32-bit one
PrimSize_u64_as_u32(prim) ==
    CASE prim \in {"u8", "c_char"} -> 1
      [] prim = "u16" -> 2
      [] prim \in {"u32", "u64"} -> 4

\* Size of a primitive on x86_64; its alignment is the same number.
PrimSize(prim) ==
    CASE prim \in {"u8", "c_char"} -> 1
      [] prim = "u16" -> 2
      [] prim = "u32" -> 4
      [] prim = "u64" -> 8

\* an array taken to occupy one element
ArraySize_one_element(elem_size, n) == elem_size

\* [T; n] occupies n elements, back to back
ArraySize(elem_size, n) == elem_size * n

\* an array aligned to the size of its element
ArrayAlign_as_elem_size(elem_align, elem_size) == elem_size

\* [T; n] is aligned as T
ArrayAlign(elem_align, elem_size) == elem_align

\* rounding up that moves an aligned offset to the next boundary as well
AlignUp_always_next(offset, align) == ((offset \div align) + 1) * align

\* the least multiple of align that is >= offset
AlignUp(offset, align) == ((offset + align - 1) \div align) * align

Max(a, b) == IF a > b THEN a ELSE b

RECURSIVE SizeOf(_)
RECURSIVE AlignOf(_)
RECURSIVE StructEnd(_, _)
RECURSIVE StructAlign(_, _)

\* where field k of a repr(C) struct starts: the end of field k-1, rounded up
\* to the alignment of field k
FieldOffset(fields, k) == AlignUp(StructEnd(fields, k - 1), AlignOf(fields[k].ty))

\* the end of field k (0: the start of the struct)
StructEnd(fields, k) ==
    IF k = 0 THEN 0 ELSE FieldOffset(fields, k) + SizeOf(fields[k].ty)

\* the largest alignment among the first k fields
StructAlign(fields, k) ==
    IF k = 0 THEN 1 ELSE Max(StructAlign(fields, k - 1), AlignOf(fields[k].ty))

AlignOf(ty) ==
    CASE ty.kind = "prim" -> PrimSize(ty.name)
      [] ty.kind = "array" -> ArrayAlign(AlignOf(ty.elem[1]), SizeOf(ty.elem[1]))
      [] ty.kind = "struct" -> StructAlign(Fields(ty.name), Len(Fields(ty.name)))

SizeOf(ty) ==
    CASE ty.kind = "prim" -> PrimSize(ty.name)
      [] ty.kind = "array" -> ArraySize(SizeOf(ty.elem[1]), ty.n)
      [] ty.kind = "struct" ->
           AlignUp(StructEnd(Fields(ty.name), Len(Fields(ty.name))), AlignOf(ty))

\* The entries a test addresses behind a header.
MaxEntryIndex == 3

NoLayout == [struct |-> "-", placed |-> 0, end |-> 0, align |-> 1, offsets |-> <<>>,
             done |-> FALSE, size |-> 0, entry |-> 0, entry_offset |-> 0,
             entry_size |-> 0, entry_align |-> 0,
             test |-> [ran |-> FALSE, file |-> "-", platform |-> "-", passed |-> TRUE]]

\* ----------------------------------------------------------------- state
\* The target architectures: the four the cfg attributes name, and one of
\* the others Rust compiles for.
Archs == {"x86", "x86_64", "arm", "aarch64", "s390x"}

IsX86(arch) == arch \in {"x86", "x86_64"}
IsArm(arch) == arch \in {"arm", "aarch64"}

\* the cfg attribute of an item, evaluated for a target architecture
CfgHolds(cfg, arch) ==
    CASE cfg = "any(x86, x86_64)" -> IsX86(arch)
      [] cfg = "any(arm, aarch64)" -> IsArm(arch)
      [] cfg = "not(any(arm, aarch64))" -> ~IsArm(arch)
      [] cfg = "-" -> TRUE

\* an item of trait Vcpu: its name, its cfg attribute ("-": none) and the
\* types of its signature that vcpu.rs imports
Item(name, cfg, uses) == [name |-> name, cfg |-> cfg, uses |-> uses]

\* pub trait Vcpu, in source order
TraitItems ==
    <<Item("get_regs", "not(any(arm, aarch64))", {"StandardRegisters"}),
      Item("set_regs", "not(any(arm, aarch64))", {"StandardRegisters"}),
      Item("get_sregs", "any(x86, x86_64)", {"SpecialRegisters"}),
      Item("set_sregs", "any(x86, x86_64)", {"SpecialRegisters"}),
      Item("get_fpu", "any(x86, x86_64)", {"FpuState"}),
      Item("set_fpu", "any(x86, x86_64)", {"FpuState"}),
      Item("set_cpuid2", "any(x86, x86_64)", {"CpuId"}),
      Item("get_lapic", "any(x86, x86_64)", {"LapicState"}),
      Item("set_lapic", "any(x86, x86_64)", {"LapicState"}),
      Item("get_msrs", "any(x86, x86_64)", {"MsrEntries"}),
      Item("set_msrs", "any(x86, x86_64)", {"MsrEntries"}),
      Item("vcpu_init", "any(arm, aarch64)", {"VcpuInit"}),
      Item("set_one_reg", "any(arm, aarch64)", {}),
      Item("run", "-", {}),
      Item("get_run_context", "-", {})>>

\* The names the use declarations of vcpu.rs bring into scope for a target.
Imported(arch) ==
    (IF CfgHolds("any(arm, aarch64)", arch) THEN {"VcpuInit"} ELSE {})
    \cup
    (IF CfgHolds("any(x86, x86_64)", arch)
     THEN {"StandardRegisters", "SpecialRegisters", "FpuState", "MsrEntries",
           "MsrEntry", "CpuId", "LapicState"}
     ELSE {})

NoBuild == [arch |-> "-", platform |-> "-", next |-> 1, caps |-> {}, unresolved |-> {}]

VARIABLES
    heap,             \* BufIds -> the Vec<CpuId2> allocated there (or Free)
    cpuid,            \* Ids -> the CpuId value held there (or Null)
    clone_of,         \* Ids -> the container it was cloned from (0: built directly)
    last,             \* the last operation, its arguments and what it returned
    vcpu,             \* the Vcpu handle: platform, lifecycle phase, registers, context
    call,             \* the last Vcpu operation and what it returned
    hist,             \* history of the handle: exits so far, last value set, contexts seen
    lay,              \* the struct being laid out and the offsets found so far
    build             \* the target being compiled for and the trait items compiled so far

container_vars == <<heap, cpuid, clone_of, last>>
vcpu_vars == <<vcpu, call, hist>>
vars == <<heap, cpuid, clone_of, last, vcpu, call, hist, lay, build>>

NoOp == [op |-> "none", who |-> 0, other |-> 0, arg |-> 0, src |-> <<>>,
         len |-> 0, pre_nent |-> 0, again |-> FALSE, result |-> FALSE,
         derived |-> {}]

Alloc(h) == CHOOSE b \in BufIds : ~h[b].live
CanAlloc(h) == \E b \in BufIds : ~h[b].live

BufOf(i) == heap[cpuid[i].cpuid_vec]

Init ==
    /\ heap = [b \in BufIds |-> Free]
    /\ cpuid = [i \in Ids |-> Null]
    /\ clone_of = [i \in Ids |-> 0]
    /\ last = NoOp
    /\ vcpu = NewVcpu("none")
    /\ call = NoCall
    /\ hist = NoHist
    /\ lay = NoLayout
    /\ build = NoBuild

\* let cpuid_i = CpuId::new(array_len);
New(i, array_len) ==
    /\ ~cpuid[i].live
    /\ CanAlloc(heap)
    /\ NewReturns(array_len)
    /\ LET b == Alloc(heap)
       IN  /\ heap' = [heap EXCEPT ![b] = NewVec(array_len)]
           /\ cpuid' = [cpuid EXCEPT ![i] = [live |-> TRUE, cpuid_vec |-> b,
                                             allocated_len |-> array_len]]
    /\ last' = [NoOp EXCEPT !.op = "new", !.who = i, !.arg = array_len]
    /\ UNCHANGED clone_of
    /\ UNCHANGED <<vcpu_vars, lay, build>>

\* CpuId::new(array_len) panics: no container is built
NewPanic(i, array_len) ==
    /\ ~cpuid[i].live
    /\ NewPanics(array_len)
    /\ last' = [NoOp EXCEPT !.op = "new_panic", !.who = i, !.arg = array_len]
    /\ UNCHANGED <<heap, cpuid, clone_of>>
    /\ UNCHANGED <<vcpu_vars, lay, build>>

\* let cpuid_i = CpuId::from_entries(&entries);
FromEntries(i, entries) ==
    /\ ~cpuid[i].live
    /\ CanAlloc(heap)
    /\ LET b == Alloc(heap)
       IN  /\ heap' = [heap EXCEPT ![b] = FromEntriesVec(entries)]
           /\ cpuid' = [cpuid EXCEPT ![i] = [live |-> TRUE, cpuid_vec |-> b,
                                             allocated_len |-> Len(entries)]]
    /\ last' = [NoOp EXCEPT !.op = "from_entries", !.who = i, !.arg = Len(entries),
                            !.src = entries,
                            !.derived = {[who |-> i, len |-> Len(entries)]}]
    /\ UNCHANGED clone_of
    /\ UNCHANGED <<vcpu_vars, lay, build>>

\* cpuid_i.mut_entries_slice()
MutEntriesSlice(i) ==
    /\ cpuid[i].live
    /\ LET r == mut_entries_slice(BufOf(i), cpuid[i].allocated_len)
       IN  /\ heap' = [heap EXCEPT ![cpuid[i].cpuid_vec] = r.buf]
           /\ last' = [NoOp EXCEPT !.op = "mut_entries_slice", !.who = i,
                                   !.len = r.len, !.pre_nent = BufOf(i).nent,
                                   !.again = (last.op = "mut_entries_slice" /\ last.who = i),
                                   !.derived = {[who |-> i, len |-> r.len]}]
    /\ UNCHANGED <<cpuid, clone_of>>
    /\ UNCHANGED <<vcpu_vars, lay, build>>

\* the caller stores v into element k of the slice it was just handed
WriteSlice(i, k, v) ==
    /\ cpuid[i].live
    /\ last.op \in {"mut_entries_slice", "write_slice", "fill_slice", "write_slice_oob"}
    /\ last.who = i
    /\ k <= last.len
    /\ k <= Len(BufOf(i).entries)
    /\ heap' = [heap EXCEPT ![cpuid[i].cpuid_vec].entries[k] = v]
    /\ last' = [NoOp EXCEPT !.op = "write_slice", !.who = i, !.len = last.len]
    /\ UNCHANGED <<cpuid, clone_of>>
    /\ UNCHANGED <<vcpu_vars, lay, build>>

\* the caller stores into an element of the slice that lies past the end of the
\* Vec (the slice was longer than the allocation): the store lands outside the
\* buffer, in unowned memory or in the header of another live allocation.
WriteSliceOob(i, k, v) ==
    /\ cpuid[i].live
    /\ last.op \in {"mut_entries_slice", "write_slice", "write_slice_oob"}
    /\ last.who = i
    /\ k <= last.len
    /\ k > Len(BufOf(i).entries)
    /\ \/ UNCHANGED heap
       \/ \E b \in BufIds :
             /\ heap[b].live
             /\ b # cpuid[i].cpuid_vec
             /\ heap' = [heap EXCEPT ![b].nent = v]
    /\ last' = [NoOp EXCEPT !.op = "write_slice_oob", !.who = i, !.len = last.len]
    /\ UNCHANGED <<cpuid, clone_of>>
    /\ UNCHANGED <<vcpu_vars, lay, build>>

\* the caller fills every element of the slice it was just handed
FillSlice(i) ==
    /\ cpuid[i].live
    /\ last.op = "mut_entries_slice"
    /\ last.who = i
    /\ last.len <= Len(BufOf(i).entries)
    /\ heap' = [heap EXCEPT ![cpuid[i].cpuid_vec].entries =
                    [k \in 1..Len(@) |-> IF k <= last.len THEN 1 ELSE @[k]]]
    /\ last' = [NoOp EXCEPT !.op = "fill_slice", !.who = i, !.len = last.len]
    /\ UNCHANGED <<cpuid, clone_of>>
    /\ UNCHANGED <<vcpu_vars, lay, build>>

\* a backend stores v into nent through the pointer from as_mut_ptr
PtrWriteNent(i, v) ==
    /\ cpuid[i].live
    /\ heap' = [heap EXCEPT ![cpuid[i].cpuid_vec].nent = v]
    /\ last' = [NoOp EXCEPT !.op = "ptr_write_nent", !.who = i]
    /\ UNCHANGED <<cpuid, clone_of>>
    /\ UNCHANGED <<vcpu_vars, lay, build>>

\* a backend stores v into entry slot k through the pointer from as_mut_ptr
PtrWriteEntry(i, k, v) ==
    /\ cpuid[i].live
    /\ k <= cpuid[i].allocated_len
    /\ k <= Len(BufOf(i).entries)
    /\ heap' = [heap EXCEPT ![cpuid[i].cpuid_vec].entries[k] = v]
    /\ last' = [NoOp EXCEPT !.op = "ptr_write_entry", !.who = i]
    /\ UNCHANGED <<cpuid, clone_of>>
    /\ UNCHANGED <<vcpu_vars, lay, build>>

\* let cpuid_j = cpuid_i.clone();
CloneInto(i, j) ==
    /\ cpuid[i].live
    /\ ~cpuid[j].live
    /\ CanAlloc(heap)
    /\ LET r == Clone(cpuid[i], heap, Alloc(heap))
       IN  /\ heap' = [heap EXCEPT ![r.container.cpuid_vec] = r.buffer]
           /\ cpuid' = [cpuid EXCEPT ![j] = r.container]
    /\ clone_of' = [clone_of EXCEPT ![j] = i]
    /\ last' = [NoOp EXCEPT !.op = "clone", !.who = j, !.other = i]
    /\ UNCHANGED <<vcpu_vars, lay, build>>

\* cpuid_i == cpuid_j
EqCall(i, j) ==
    /\ i # j
    /\ cpuid[i].live
    /\ cpuid[j].live
    /\ \E res \in Eq(cpuid[i], cpuid[j], heap) :
          last' = [NoOp EXCEPT !.op = "eq", !.who = i, !.other = j, !.result = res,
                               !.derived = {[who |-> i, len |-> EqSlices(cpuid[i], cpuid[j])[1]],
                                            [who |-> i, len |-> EqSlices(cpuid[i], cpuid[j])[2]]}]
    /\ UNCHANGED <<heap, cpuid, clone_of>>
    /\ UNCHANGED <<vcpu_vars, lay, build>>

\* the slots a test writes: the first and the last of a range of n
Picks(n) == {k \in {1, n} : 1 <= k /\ k <= n}

\* Container 1 is built from every input; container 2 from the small ones,
\* or as a clone.
CapsFor(i) == IF i = 1 THEN Capacities ELSE SmallCaps
SeqsFor(i) == IF i = 1 THEN EntrySeqs ELSE SmallSeqs

Next ==
    \/ \E i \in Ids : \E c \in CapsFor(i) : New(i, c)
    \/ \E i \in Ids : \E c \in CapsFor(i) : NewPanic(i, c)
    \/ \E i \in Ids : \E e \in SeqsFor(i) : FromEntries(i, e)
    \/ \E i \in Ids : MutEntriesSlice(i)
    \/ \E i \in Ids, v \in EntryVals : \E k \in Picks(last.len) : WriteSlice(i, k, v)
    \/ \E i \in Ids, v \in EntryVals : \E k \in Picks(last.len) : WriteSliceOob(i, k, v)
    \/ \E i \in Ids : FillSlice(i)
    \/ \E i \in Ids, v \in NentVals : PtrWriteNent(i, v)
    \/ \E i \in Ids, v \in EntryVals : \E k \in Picks(cpuid[i].allocated_len) :
          PtrWriteEntry(i, k, v)
    \/ \E i \in Ids, j \in Ids : CloneInto(i, j)
    \/ \E i \in Ids, j \in Ids : EqCall(i, j)

Spec == Init /\ [][Next]_vars

\* The same operations over small inputs only: no capacity or length reaches
\* the width of u32 or overflows usize.
NextSmall ==
    \/ \E i \in Ids : \E c \in SmallCaps : New(i, c)
    \/ \E i \in Ids : \E e \in SmallSeqs : FromEntries(i, e)
    \/ \E i \in Ids : MutEntriesSlice(i)
    \/ \E i \in Ids, v \in EntryVals : \E k \in Picks(last.len) : WriteSlice(i, k, v)
    \/ \E i \in Ids : FillSlice(i)
    \/ \E i \in Ids, v \in NentVals : PtrWriteNent(i, v)
    \/ \E i \in Ids, v \in EntryVals : \E k \in Picks(cpuid[i].allocated_len) :
          PtrWriteEntry(i, k, v)
    \/ \E i \in Ids, j \in Ids : CloneInto(i, j)
    \/ \E i \in Ids, j \in Ids : EqCall(i, j)

SpecSmall == Init /\ [][NextSmall]_vars

\* cpuid_i.as_ptr(): &self.cpuid_vec[0], an index that panics on an empty Vec
AsPtr(i) ==
    /\ cpuid[i].live
    /\ last' = [NoOp EXCEPT !.op = IF BufOf(i).len = 0 THEN "as_ptr_panic" ELSE "as_ptr",
                            !.who = i]
    /\ UNCHANGED <<heap, cpuid, clone_of>>
    /\ UNCHANGED <<vcpu_vars, lay, build>>

\* cpuid_i.as_mut_ptr(): &mut self.cpuid_vec[0]
AsMutPtr(i) ==
    /\ cpuid[i].live
    /\ last' = [NoOp EXCEPT !.op = IF BufOf(i).len = 0 THEN "as_mut_ptr_panic" ELSE "as_mut_ptr",
                            !.who = i]
    /\ UNCHANGED <<heap, cpuid, clone_of>>
    /\ UNCHANGED <<vcpu_vars, lay, build>>

\* The capacity a caller stores into the public field: the documented maximum.
PubLens == {MAX_CPUID_ENTRIES}

\* cpuid_i.allocated_len = v;  the field is declared pub
SetAllocatedLen(i, v) ==
    /\ cpuid[i].live
    /\ cpuid[i].allocated_len # v
    /\ cpuid' = [cpuid EXCEPT ![i].allocated_len = v]
    /\ last' = [NoOp EXCEPT !.op = "set_allocated_len", !.who = i, !.arg = v]
    /\ UNCHANGED <<heap, clone_of>>
    /\ UNCHANGED <<vcpu_vars, lay, build>>

\* cpuid_i.cpuid_vec.truncate(1);  the field is declared pub: the Vec keeps
\* its first element, the header, and loses every entry slot
TruncateVec(i) ==
    /\ cpuid[i].live
    /\ BufOf(i).len > 1
    /\ heap' = [heap EXCEPT ![cpuid[i].cpuid_vec] =
                    [@ EXCEPT !.len = 1, !.entries = <<>>]]
    /\ last' = [NoOp EXCEPT !.op = "truncate_vec", !.who = i]
    /\ UNCHANGED <<cpuid, clone_of>>
    /\ UNCHANGED <<vcpu_vars, lay, build>>

\* Every operation of the container, over every input.
NextOps ==
    \/ Next
    \/ \E i \in Ids : AsPtr(i)
    \/ \E i \in Ids : AsMutPtr(i)

SpecOps == Init /\ [][NextOps]_vars

\* The container's operations over small inputs, together with what the
\* declaration of CpuId lets any caller do.
NextPub ==
    \/ NextSmall
    \/ \E i \in Ids, v \in PubLens : SetAllocatedLen(i, v)
    \/ \E i \in Ids : TruncateVec(i)

SpecPub == Init /\ [][NextPub]_vars

\* ------------------------------------------------- operations on one Vcpu
InitVcpu ==
    /\ heap = [b \in BufIds |-> Free]
    /\ cpuid = [i \in Ids |-> Null]
    /\ clone_of = [i \in Ids |-> 0]
    /\ last = NoOp
    /\ vcpu \in {NewVcpu(p) : p \in Platforms}
    /\ call = NoCall
    /\ hist = NoHist
    /\ lay = NoLayout
    /\ build = NoBuild

\* thread t may start operation op: it is not itself inside run(), and the
\* receiver of op can be borrowed while other calls are in flight
CanCall(t, op) ==
    /\ t \notin vcpu.inflight
    /\ BorrowAllows(Receiver(op), vcpu.inflight)

\* thread t enters vcpu.run()
BeginRun(t) ==
    /\ CanCall(t, "run")
    /\ vcpu' = [vcpu EXCEPT !.inflight = @ \cup {t}, !.phase = "Running"]
    /\ call' = [NoCall EXCEPT !.op = "run_begin", !.overlap = (vcpu.inflight # {})]
    /\ hist' = [hist EXCEPT !.written = NoHist.written, !.seen = NoHist.seen]
    /\ UNCHANGED <<container_vars, lay, build>>

\* vcpu.run() returns to thread t.  how = "exit": the guest ran up to an exit
\* condition and left its registers as guest_regs; "cancel": the run was
\* cancelled; "fail": the execution call could not be issued or completed.
EndRun(t, how) ==
    /\ t \in vcpu.inflight
    /\ \E result \in ReturnsOf(how, vcpu.platform) :
       \E guest_regs \in GuestOutcomes(vcpu.regs, result) :
          /\ vcpu' = [vcpu EXCEPT
                        !.inflight = @ \ {t},
                        !.phase = PhaseAfterReturn(vcpu.inflight \ {t}),
                        !.regs = guest_regs,
                        !.run_context = IF result.ok THEN NextContext(@) ELSE @]
          /\ call' = [NoCall EXCEPT !.op = "run_return", !.result = result,
                                    !.how = how, !.overlap = (vcpu.inflight # {t})]
          /\ hist' = [hist EXCEPT
                        !.runs = IF result.ok THEN NextContext(@) ELSE @,
                        !.written = NoHist.written,
                        !.seen = [@ EXCEPT !.open = TRUE]]
    /\ UNCHANGED <<container_vars, lay, build>>

\* vcpu.set_regs(&v) / set_sregs / set_fpu / set_lapic, by thread t
SetRegs(t, set, val, ok) ==
    /\ CanCall(t, "set")
    /\ vcpu' = IF ok THEN [vcpu EXCEPT !.regs = StoreRegs(@, set, val),
                                      !.phase = PhaseAfterAccess(@)]
               ELSE vcpu
    /\ call' = [NoCall EXCEPT !.op = "set", !.set = set, !.val = val,
                              !.result = IF ok THEN Ok("-") ELSE Err,
                              !.overlap = (vcpu.inflight # {})]
    /\ hist' = IF ~ok THEN hist
               ELSE [hist EXCEPT !.written =
                        IF vcpu.inflight = {}
                        THEN [valid |-> TRUE, set |-> set, val |-> val]
                        ELSE NoHist.written]
    /\ UNCHANGED <<container_vars, lay, build>>

\* vcpu.get_regs() / get_sregs / get_fpu / get_lapic, by thread t
GetRegs(t, set, ok) ==
    /\ CanCall(t, "get")
    /\ vcpu' = IF ok THEN [vcpu EXCEPT !.phase = PhaseAfterAccess(@)] ELSE vcpu
    /\ call' = [NoCall EXCEPT !.op = "get", !.set = set,
                              !.val = IF ok THEN vcpu.regs[set] ELSE 0,
                              !.result = IF ok THEN Ok("-") ELSE Err,
                              !.overlap = (vcpu.inflight # {})]
    /\ UNCHANGED <<hist, container_vars, lay, build>>

\* vcpu.get_run_context(), by thread t
GetRunContext(t) ==
    /\ CanCall(t, "get_run_context")
    /\ call' = [NoCall EXCEPT !.op = "get_run_context", !.val = vcpu.run_context,
                              !.overlap = (vcpu.inflight # {})]
    /\ hist' = [hist EXCEPT !.seen =
                   IF @.open /\ ~@.has
                   THEN [open |-> TRUE, has |-> TRUE, val |-> vcpu.run_context]
                   ELSE @]
    /\ UNCHANGED <<vcpu, container_vars, lay, build>>

\* Which thread makes a call that returns at once leaves no trace: one
\* thread that is not inside run() stands for all of them.
Callers(inflight) ==
    IF Threads \ inflight = {} THEN {} ELSE {CHOOSE t \in Threads \ inflight : TRUE}

NextVcpu ==
    \/ \E t \in Threads : BeginRun(t)
    \/ \E t \in Threads, how \in {"exit", "cancel", "fail"} : EndRun(t, how)
    \/ \E t \in Callers(vcpu.inflight), s \in RegisterSets, v \in RegVals, ok \in BOOLEAN :
          SetRegs(t, s, v, ok)
    \/ \E t \in Callers(vcpu.inflight), s \in RegisterSets, ok \in BOOLEAN :
          GetRegs(t, s, ok)
    \/ \E t \in Callers(vcpu.inflight) : GetRunContext(t)

SpecVcpu == InitVcpu /\ [][NextVcpu]_vars

\* ------------------------------------------------ laying out the structs
\* let layout = Layout::new::<struct>()
BeginLayout(struct) ==
    /\ lay' = [NoLayout EXCEPT !.struct = struct]
    /\ UNCHANGED <<container_vars, vcpu_vars, build>>

\* the next field is placed at the end of the fields before it, rounded up
\* to its own alignment
PlaceField ==
    /\ lay.struct \in Structs
    /\ lay.placed < Len(Fields(lay.struct))
    /\ LET f == Fields(lay.struct)[lay.placed + 1]
           offset == AlignUp(lay.end, AlignOf(f.ty))
       IN  lay' = [lay EXCEPT !.placed = @ + 1,
                              !.offsets = Append(@, offset),
                              !.end = offset + SizeOf(f.ty),
                              !.align = Max(@, AlignOf(f.ty))]
    /\ UNCHANGED <<container_vars, vcpu_vars, build>>

\* size_of::<struct>(): the end of the last field rounded up to the alignment
FinishLayout ==
    /\ lay.struct \in Structs
    /\ lay.placed = Len(Fields(lay.struct))
    /\ ~lay.done
    /\ lay' = [lay EXCEPT !.done = TRUE, !.size = AlignUp(lay.end, lay.align)]
    /\ UNCHANGED <<container_vars, vcpu_vars, build>>

\* entries.as_ptr().add(i): element i of the array that follows the header
EntryAddress(i) ==
    /\ lay.done
    /\ lay.struct \in {"CpuId2", "MsrEntries"}
    /\ LET f == Fields(lay.struct)[lay.placed]
           elem == f.ty.elem[1]
       IN  lay' = [lay EXCEPT !.entry = i,
                              !.entry_size = SizeOf(elem),
                              !.entry_align = AlignOf(elem),
                              !.entry_offset = lay.offsets[lay.placed] + i * SizeOf(elem)]
    /\ UNCHANGED <<container_vars, vcpu_vars, build>>

\* cargo test of module file `file` on `platform`: each compiled
\* vcpu_test_layout_lapic_state compares size_of::<LapicState>() with the
\* size it states
RunLapicLayoutTest(file, platform) ==
    /\ lay.done
    /\ lay.struct = LapicStateOf(platform)
    /\ lay' = [lay EXCEPT !.test =
                  [ran |-> LapicAssertedSizes(file, platform) # {},
                   file |-> file, platform |-> platform,
                   passed |-> \A a \in LapicAssertedSizes(file, platform) : a = lay.size]]
    /\ UNCHANGED <<container_vars, vcpu_vars, build>>

NextLayout ==
    \/ \E s \in Structs : BeginLayout(s)
    \/ PlaceField
    \/ FinishLayout
    \/ \E i \in 0..MaxEntryIndex : EntryAddress(i)
    \/ \E f \in ModuleFiles, p \in Platforms : RunLapicLayoutTest(f, p)

SpecLayout == Init /\ [][NextLayout]_vars

\* cargo build --target <arch>-<platform>
SelectTarget(arch, platform) ==
    /\ build.arch = "-"
    /\ build' = [build EXCEPT !.arch = arch, !.platform = platform]
    /\ UNCHANGED <<container_vars, vcpu_vars, lay>>

\* The compiler reaches the next item of trait Vcpu: an item whose cfg holds
\* becomes a method of the trait, and a type of its signature that no use
\* declaration imported for this target is an unresolved name.
CompileItem ==
    /\ build.arch # "-"
    /\ build.next <= Len(TraitItems)
    /\ LET item == TraitItems[build.next]
           in == CfgHolds(item.cfg, build.arch)
       IN  build' = [build EXCEPT
                       !.next = @ + 1,
                       !.caps = IF in THEN @ \cup {item.name} ELSE @,
                       !.unresolved = IF in THEN @ \cup (item.uses \ Imported(build.arch))
                                      ELSE @]
    /\ UNCHANGED <<container_vars, vcpu_vars, lay>>

NextBuild ==
    \/ \E a \in Archs, p \in Platforms : SelectTarget(a, p)
    \/ CompileItem

SpecBuild == Init /\ [][NextBuild]_vars

\* ---------------------------------------------------------------- claims
\* min(declared count, capacity) of container i
ClampedCount(i) == Min(BufOf(i).nent, cpuid[i].allocated_len)

\* entry k of a buffer as a reader of the slice sees it (-1: outside the Vec)
EntryAt(buf, k) == IF k <= Len(buf.entries) THEN buf.entries[k] ELSE -1

\* the first n entries of a buffer, as a sequence
EntriesOf(buf, n) == [k \in 1..n |-> EntryAt(buf, k)]

\* C1: when nent has been forced above allocated_len, the slice returned by the
\* next mut_entries_slice is no longer than allocated_len and lies inside the
\* backing buffer (8 + 40 * length bytes <= byte length of the Vec).
C1_ClampedSliceInBounds ==
    \A i \in Ids :
        (/\ last.op = "mut_entries_slice"
         /\ last.who = i
         /\ last.pre_nent > cpuid[i].allocated_len)
        => /\ last.len <= cpuid[i].allocated_len
           /\ InBounds(BufOf(i), last.len)

C1_Witness ==
    \E i \in Ids :
        /\ last.op = "mut_entries_slice"
        /\ last.who = i
        /\ last.pre_nent = U32Mod - 1
        /\ cpuid[i].allocated_len = MaxCap
        /\ last.len = MaxCap

\* C2: for every capacity c, the container returned by CpuId::new(c) has a
\* mut_entries_slice() of length exactly c.
C2_NewSliceLenIsCapacity ==
    \A i \in Ids :
        (last.op = "new" /\ last.who = i)
        => mut_entries_slice(BufOf(i), cpuid[i].allocated_len).len = last.arg

\* C3: for every entry sequence E, from_entries(E).mut_entries_slice() has the
\* length of E and the elements of E in the same order.
C3_FromEntriesRoundTrip ==
    \A i \in Ids :
        (last.op = "from_entries" /\ last.who = i)
        => LET r == mut_entries_slice(BufOf(i), cpuid[i].allocated_len)
           IN  /\ r.len = Len(last.src)
               /\ EntriesOf(r.buf, r.len) = last.src

\* C4: eq answers TRUE exactly when the declared counts are equal and the two
\* entry slices, each taken from its own buffer and clamped to its own declared
\* count, are element-wise equal.
C4_EqIsClampedEntryEquality ==
    \A i \in Ids, j \in Ids :
        (last.op = "eq" /\ last.who = i /\ last.other = j)
        => last.result =
              (/\ BufOf(i).nent = BufOf(j).nent
               /\ EntriesOf(BufOf(i), ClampedCount(i)) = EntriesOf(BufOf(j), ClampedCount(j)))

\* C5: right after Y = X.clone(), Y == X is TRUE.
C5_CloneEqualsOriginal ==
    (last.op = "clone")
    => Eq(cpuid[last.who], cpuid[last.other], heap) = {TRUE}

\* C6: when one of two containers is a clone of the other, a write to the
\* entries or the declared count of either leaves the capacity, the header and
\* the entries of the other unchanged.
WriteOps == {"mut_entries_slice", "write_slice", "write_slice_oob", "fill_slice",
             "ptr_write_nent", "ptr_write_entry"}

C6_CloneIndependent ==
    [][\A i \in Ids, j \in Ids :
          (/\ i # j
           /\ clone_of[j] = i \/ clone_of[i] = j
           /\ last'.op \in WriteOps
           /\ last'.who = j)
          => /\ cpuid'[i] = cpuid[i]
             /\ heap'[cpuid[i].cpuid_vec] = heap[cpuid[i].cpuid_vec]]_vars

\* C7: no operation derives an entry slice that runs past the allocated entry
\* slots of the container whose buffer it is taken from.
C7_SlicesWithinAllocatedSlots ==
    \A d \in last.derived :
        /\ d.len <= cpuid[d.who].allocated_len
        /\ InBounds(BufOf(d.who), d.len)

\* C8: the backing buffer of every container is at least 8 + 40 * allocated_len
\* bytes long.
C8_BufferHoldsCapacity ==
    \A i \in Ids :
        cpuid[i].live
        => SizeOfCpuId2 * BufOf(i).len
              >= SizeOfCpuId2 + SizeOfCpuIdEntry2 * cpuid[i].allocated_len

\* C9: a mut_entries_slice call that directly follows another on the same
\* container returns a slice of the same length over the same contents and
\* changes nothing in the container.
C9_MutEntriesSliceIdempotent ==
    [][(/\ last.op = "mut_entries_slice"
        /\ last'.op = "mut_entries_slice"
        /\ last'.who = last.who)
       => /\ last'.len = last.len
          /\ heap' = heap
          /\ cpuid' = cpuid]_vars

C9_Witness ==
    \E i \in Ids :
        /\ last.op = "mut_entries_slice"
        /\ last.again
        /\ last.who = i
        /\ cpuid[i].allocated_len = MAX_CPUID_ENTRIES
        /\ last.len = MAX_CPUID_ENTRIES
        /\ \A k \in 1..MAX_CPUID_ENTRIES : BufOf(i).entries[k] = 1

\* C10: a container of capacity 0 can be built, and whatever its declared count
\* has been set to, mut_entries_slice returns an empty slice.
C10_ZeroCapacityAlwaysEmpty ==
    /\ NewReturns(0) /\ ~NewPanics(0)
    /\ \A i \in Ids :
          (/\ last.op = "mut_entries_slice"
           /\ last.who = i
           /\ cpuid[i].allocated_len = 0)
          => last.len = 0

C10_Witness ==
    \E i \in Ids :
        /\ last.op = "mut_entries_slice"
        /\ last.who = i
        /\ cpuid[i].allocated_len = 0
        /\ last.pre_nent > 0
        /\ last.len = 0

\* C11: run() never overlaps another call on the same handle: at most one
\* run() is in flight, and no run(), get_* or set_* starts or returns while
\* another thread's run() is in flight.
C11_RunNeverOverlaps ==
    /\ Cardinality(vcpu.inflight) <= 1
    /\ ~call.overlap

\* C12: the handle cycles Configured -> Running -> Exited -> Running ...:
\* each step follows an edge of that cycle (or Exited -> Configured), Running
\* is entered only by a call of run() and left only by its return, in Exited
\* both a further run() and a register access leading back to Configured are
\* enabled, and in every state some operation of the contract is enabled.
C12_Lifecycle ==
    /\ [](/\ ENABLED NextVcpu
          /\ vcpu.phase = "Exited" =>
                /\ ENABLED (\E t \in Threads : BeginRun(t))
                /\ ENABLED (/\ \E t \in Threads, s \in RegisterSets, v \in RegVals :
                                  SetRegs(t, s, v, TRUE)
                            /\ vcpu'.phase = "Configured")
                /\ ENABLED (/\ \E t \in Threads, s \in RegisterSets :
                                  GetRegs(t, s, TRUE)
                            /\ vcpu'.phase = "Configured"))
    /\ [][/\ <<vcpu.phase, vcpu'.phase>> \in
                {<<"Configured", "Configured">>, <<"Configured", "Running">>,
                 <<"Running", "Running">>, <<"Running", "Exited">>,
                 <<"Exited", "Exited">>, <<"Exited", "Running">>,
                 <<"Exited", "Configured">>}
          /\ (vcpu.phase # "Running" /\ vcpu'.phase = "Running") => call'.op = "run_begin"
          /\ (vcpu.phase = "Running" /\ vcpu'.phase # "Running") => call'.op = "run_return"
         ]_vars

\* the handle is back in Configured after a run has returned an exit
C12_Witness ==
    /\ vcpu.phase = "Configured"
    /\ call.op = "set"
    /\ hist.runs > 0

\* C13: an error value is always the one I/O error and carries no exit
\* reason; run() returns it only when the execution call was not completed
\* (it failed or was interrupted); a run that reached an exit condition,
\* guest faults (UnrecoverableException, FailEntry, InternalError) included,
\* returns Ok with an exit reason of the platform's enum.
C13_ErrorsAreIoErrorsOnly ==
    /\ ~call.result.ok => (call.result.err = "io::Error" /\ call.result.exit = "-")
    /\ (call.op = "run_return" /\ ~call.result.ok) => call.how \in {"fail", "cancel"}
    /\ (call.op = "run_return" /\ call.how = "exit") =>
          (call.result.ok /\ call.result.exit \in VcpuExit(vcpu.platform))
    /\ "UnrecoverableException" \in WindowsExits
    /\ {"FailEntry", "InternalError"} \subseteq UnixExits

\* a run that ended in a failed guest entry returned it as a success
C13_Witness ==
    /\ call.op = "run_return"
    /\ call.how = "exit"
    /\ call.result = Ok("FailEntry")

\* C14 (as stated): on each backend, Windows and Unix, the exit-reason enum
\* has a Canceled tag and a cancelled run() returns Ok(Canceled).
C14_CancelledRunReturnsCanceled ==
    (call.op = "run_return" /\ call.how = "cancel") =>
        /\ "Canceled" \in VcpuExit(vcpu.platform)
        /\ call.result = Ok("Canceled")

\* C14 (amended): only the Windows exit-reason enum has a Canceled tag: a
\* cancelled run() on Windows returns Ok(Canceled); the Unix enum has no such
\* tag, so no run() on Unix, cancelled or not, returns Canceled.
C14_CanceledOnWindowsOnly ==
    /\ "Canceled" \in WindowsExits
    /\ "Canceled" \notin UnixExits
    /\ (vcpu.platform = "windows" /\ call.op = "run_return" /\ call.how = "cancel") =>
          call.result = Ok("Canceled")
    /\ (vcpu.platform = "unix" /\ call.op = "run_return") =>
          call.result.exit # "Canceled"

\* a cancelled run on Windows has returned
C14_Witness ==
    /\ vcpu.platform = "windows"
    /\ call.op = "run_return"
    /\ call.how = "cancel"
    /\ call.result = Ok("Canceled")

\* C15: a successful get of a register set returns exactly the value of the
\* last successful set of that set, when no run() was in flight or returned
\* from that set on.
C15_SetGetRoundTrip ==
    (/\ call.op = "get"
     /\ call.result.ok
     /\ hist.written.valid
     /\ hist.written.set = call.set) => call.val = hist.written.val

\* the FPU state was set to a non-default value and read back
C15_Witness ==
    /\ call.op = "get"
    /\ call.result.ok
    /\ call.set = "FpuState"
    /\ hist.written = [valid |-> TRUE, set |-> "FpuState", val |-> 1]

\* C16: get_run_context() returns the context of the most recent exit; from
\* the return of one run() to the start of the next every call returns the
\* same context; the context changes only as a run() returns.
C16_RunContextStable ==
    [][/\ call'.op = "get_run_context" =>
             /\ call'.val = hist.runs
             /\ hist.seen.has => call'.val = hist.seen.val
       /\ vcpu'.run_context # vcpu.run_context => call'.op = "run_return"
      ]_vars

\* C17: CpuId2 is an 8-byte header, nent at 0 and padding at 4, followed by
\* the entries at offset 8; an entry is 40 bytes with 4-byte alignment, and
\* entry i lies at offset 8 + 40 * i.
C17_CpuId2Layout ==
    /\ (lay.done /\ lay.struct = "CpuId2") =>
          /\ lay.size = 8
          /\ FieldNames("CpuId2") = <<"nent", "padding", "entries">>
          /\ lay.offsets = <<0, 4, 8>>
          /\ lay.entry_size > 0 =>
                /\ lay.entry_size = 40
                /\ lay.entry_align = 4
                /\ lay.entry_offset = 8 + 40 * lay.entry
    /\ (lay.done /\ lay.struct = "CpuIdEntry2") => (lay.size = 40 /\ lay.align = 4)

\* an entry past the first has been addressed behind the CpuId2 header
C17_Witness ==
    /\ lay.done
    /\ lay.struct = "CpuId2"
    /\ lay.entry_size > 0
    /\ lay.entry >= 1

\* C18: the Windows StandardRegisters is 144 bytes, 8-byte aligned, and its
\* 18 fields rax, rbx, rcx, rdx, rsi, rdi, rsp, rbp, r8..r15, rip, rflags
\* lie at offsets 0, 8, ..., 136.
C18_StandardRegistersLayout ==
    (lay.done /\ lay.struct = "StandardRegisters") =>
        /\ lay.size = 144
        /\ lay.align = 8
        /\ FieldNames("StandardRegisters") =
              <<"rax", "rbx", "rcx", "rdx", "rsi", "rdi", "rsp", "rbp", "r8", "r9",
                "r10", "r11", "r12", "r13", "r14", "r15", "rip", "rflags">>
        /\ lay.offsets = [k \in 1..18 |-> 8 * (k - 1)]

\* StandardRegisters has been laid out
C18_Witness ==
    /\ lay.done
    /\ lay.struct = "StandardRegisters"
    /\ lay.placed = 18

\* C19: the Windows FpuState is 416 bytes, 8-byte aligned, with fpr 0,
\* fcw 128, fsw 130, ftwx 132, pad1 133, last_opcode 134, last_ip 136,
\* last_dp 144, xmm 152, mxcsr 408, pad2 412.
C19_FpuStateLayout ==
    (lay.done /\ lay.struct = "FpuState") =>
        /\ lay.size = 416
        /\ lay.align = 8
        /\ FieldNames("FpuState") =
              <<"fpr", "fcw", "fsw", "ftwx", "pad1", "last_opcode", "last_ip",
                "last_dp", "xmm", "mxcsr", "pad2">>
        /\ lay.offsets = <<0, 128, 130, 132, 133, 134, 136, 144, 152, 408, 412>>

\* FpuState has been laid out
C19_Witness ==
    /\ lay.done
    /\ lay.struct = "FpuState"
    /\ lay.placed = 11

\* C20: SegmentRegister is 24 bytes and DescriptorTable 16, both 8-byte
\* aligned; SpecialRegisters (8 SegmentRegisters, 2 DescriptorTables, 7 u64
\* and a 4-element u64 bitmap) is 312 bytes with cs..ldt at 0, 24, ..., 168,
\* gdt 192, idt 208, cr0 224 and interrupt_bitmap 280.
C20_SpecialRegistersLayout ==
    /\ (lay.done /\ lay.struct = "SegmentRegister") => (lay.size = 24 /\ lay.align = 8)
    /\ (lay.done /\ lay.struct = "DescriptorTable") => (lay.size = 16 /\ lay.align = 8)
    /\ (lay.done /\ lay.struct = "SpecialRegisters") =>
          /\ lay.size = 312
          /\ FieldNames("SpecialRegisters") =
                <<"cs", "ds", "es", "fs", "gs", "ss", "tr", "ldt", "gdt", "idt",
                  "cr0", "cr2", "cr3", "cr4", "cr8", "efer", "apic_base",
                  "interrupt_bitmap">>
          /\ \A k \in 1..8 :
                /\ Fields("SpecialRegisters")[k].ty = S("SegmentRegister")
                /\ lay.offsets[k] = 24 * (k - 1)
          /\ \A k \in 9..10 : Fields("SpecialRegisters")[k].ty = S("DescriptorTable")
          /\ \A k \in 11..17 : Fields("SpecialRegisters")[k].ty = P("u64")
          /\ Fields("SpecialRegisters")[18].ty = Arr(P("u64"), 4)
          /\ lay.offsets[9] = 192
          /\ lay.offsets[10] = 208
          /\ lay.offsets[11] = 224
          /\ lay.offsets[18] = 280

\* SpecialRegisters has been laid out
C20_Witness ==
    /\ lay.done
    /\ lay.struct = "SpecialRegisters"
    /\ lay.placed = 18

\* C21: LapicState is 1024 bytes on Unix and 4096 bytes on Windows, with
\* alignment 1 and regs at offset 0 on both, and every LapicState layout test
\* that a build runs asserts the size of the type that build selected.
C21_LapicStateLayout ==
    /\ LapicStateOf("unix") # LapicStateOf("windows")
    /\ (lay.done /\ lay.struct = LapicStateOf("unix")) =>
          (lay.size = 1024 /\ lay.align = 1 /\ lay.offsets = <<0>>)
    /\ (lay.done /\ lay.struct = LapicStateOf("windows")) =>
          (lay.size = 4096 /\ lay.align = 1 /\ lay.offsets = <<0>>)
    /\ lay.test.ran => lay.test.passed

\* C22: mut_entries_slice on a container with declared count d and capacity N
\* returns a view of exactly min(d, N) entries; when d > N the declared count
\* is N afterwards, and when d <= N (a lowered count included) it is still d.
C22_SliceIsMinOfDeclaredAndCapacity ==
    \A i \in Ids :
        (last.op = "mut_entries_slice" /\ last.who = i)
        => /\ last.len = Min(last.pre_nent, cpuid[i].allocated_len)
           /\ last.pre_nent > cpuid[i].allocated_len
                => BufOf(i).nent = cpuid[i].allocated_len
           /\ last.pre_nent <= cpuid[i].allocated_len
                => BufOf(i).nent = last.pre_nent

C22_Witness ==
    \E i \in Ids :
        /\ last.op = "mut_entries_slice"
        /\ last.who = i
        /\ last.pre_nent = 1
        /\ cpuid[i].allocated_len = MaxCap
        /\ last.len = 1
        /\ BufOf(i).nent = 1

\* C23: for every capacity the size type can hold, the nent read back from the
\* header right after new(capacity) equals capacity and equals allocated_len,
\* and from_entries(E) leaves nent equal to the length of E.
C23_NentReadsBackAsCapacity ==
    \A i \in Ids :
        /\ (last.op = "new" /\ last.who = i)
             => /\ BufOf(i).nent = last.arg
                /\ BufOf(i).nent = cpuid[i].allocated_len
        /\ (last.op = "from_entries" /\ last.who = i)
             => BufOf(i).nent = Len(last.src)

\* C24: Y = X.clone() has the capacity and the declared count of X, every one
\* of its capacity-many entry slots exists and equals the same slot of X (the
\* slots at or beyond the declared count included), and X is unchanged.
C24_CloneCopiesWholeBuffer ==
    [][(last'.op = "clone")
       => LET x == last'.other
              y == last'.who
              X == heap'[cpuid'[x].cpuid_vec]
              Y == heap'[cpuid'[y].cpuid_vec]
          IN  /\ cpuid'[y].allocated_len = cpuid[x].allocated_len
              /\ Y.nent = X.nent
              /\ Y.padding = X.padding
              /\ \A k \in 1..cpuid[x].allocated_len :
                     /\ k <= Len(X.entries)
                     /\ k <= Len(Y.entries)
                     /\ Y.entries[k] = X.entries[k]
              /\ cpuid'[x] = cpuid[x]
              /\ X = heap[cpuid[x].cpuid_vec]]_vars

\* C26: right after CpuId::new(c), every entry of the slice returned by
\* mut_entries_slice is a zero-initialised slot of the buffer and the header
\* padding is zero.
C26_NewEntriesAreZero ==
    \A i \in Ids :
        (last.op = "new" /\ last.who = i)
        => LET r == mut_entries_slice(BufOf(i), cpuid[i].allocated_len)
           IN  /\ r.buf.padding = 0
               /\ \A k \in 1..r.len :
                      /\ k <= Len(r.buf.entries)
                      /\ r.buf.entries[k] = 0

\* C25: callers can change neither the backing buffer nor the recorded
\* capacity, so allocated_len is exactly the number of entry slots the buffer
\* was allocated with (the buffer has 1 + 5 * allocated_len header-sized
\* units) and the clamped slice stays inside the buffer.
C25_CapacityMatchesBuffer ==
    \A i \in Ids :
        cpuid[i].live
        => /\ BufOf(i).len = 1 + 5 * cpuid[i].allocated_len
           /\ InBounds(BufOf(i), ClampedCount(i))

\* C30: mut_entries_slice, as_ptr, as_mut_ptr, clone and eq leave the
\* capacity, the buffer length, the header padding and every entry slot of
\* every container unchanged and never raise nent; nent changes only when
\* mut_entries_slice finds it above allocated_len and lowers it to
\* allocated_len.
ReadOps == {"mut_entries_slice", "as_ptr", "as_ptr_panic", "as_mut_ptr",
            "as_mut_ptr_panic", "clone", "eq"}

C30_OperationsFrame ==
    [][\A i \in Ids :
          (last'.op \in ReadOps /\ cpuid[i].live)
          => LET old == heap[cpuid[i].cpuid_vec]
                 new == heap'[cpuid[i].cpuid_vec]
             IN  /\ cpuid'[i] = cpuid[i]
                 /\ new.len = old.len
                 /\ new.padding = old.padding
                 /\ new.entries = old.entries
                 /\ new.nent <= old.nent
                 /\ new.nent # old.nent
                      => /\ last'.op = "mut_entries_slice"
                         /\ last'.who = i
                         /\ old.nent > cpuid[i].allocated_len
                         /\ new.nent = cpuid[i].allocated_len]_vars

C30_Witness ==
    \E i \in Ids :
        /\ last.op = "mut_entries_slice"
        /\ last.who = i
        /\ last.pre_nent > cpuid[i].allocated_len
        /\ cpuid[i].allocated_len = 1
        /\ BufOf(i).nent = 1
        /\ BufOf(i).entries = <<1>>

\* the exit tags of a backend that stand for an I/O port access or an MMIO
\* access, by direction
InTags(platform) == IF platform = "unix" THEN {"IoIn", "MmioRead"} ELSE {}
OutTags(platform) == IF platform = "unix" THEN {"IoOut", "MmioWrite"} ELSE {}
AccessTags(platform) ==
    IF platform = "unix" THEN InTags(platform) \cup OutTags(platform)
    ELSE {"IoPortAccess", "MemoryAccess"}

\* C27 (as stated): on each backend the exit returned by run() carries a
\* payload of (port or address, byte buffer) exactly when its tag is an I/O
\* port access or an MMIO access; the buffer is mutable for the in/read
\* direction and read-only for the out/write direction.
C27_AccessExitsCarryPayload ==
    (call.op = "run_return" /\ call.result.ok)
    => LET tag == call.result.exit
           p == Payload(vcpu.platform, tag)
       IN  /\ p.has <=> tag \in AccessTags(vcpu.platform)
           /\ tag \in InTags(vcpu.platform) => p.data = "&mut [u8]"
           /\ tag \in OutTags(vcpu.platform) => p.data = "&[u8]"

\* C27 (amended): only the Unix exit reasons IoIn, IoOut, MmioRead and
\* MmioWrite carry a payload: (u16 port, buffer) for the port accesses and
\* (u64 address, buffer) for the MMIO accesses, the buffer mutable for IoIn
\* and MmioRead and read-only for IoOut and MmioWrite.  Every other Unix tag
\* and every Windows tag, IoPortAccess and MemoryAccess included, carries
\* nothing.
C27_PayloadOnUnixAccessExitsOnly ==
    (call.op = "run_return" /\ call.result.ok)
    => LET tag == call.result.exit
           p == Payload(vcpu.platform, tag)
       IN  /\ p.has <=> (vcpu.platform = "unix" /\ tag \in AccessTags("unix"))
           /\ (vcpu.platform = "unix" /\ tag = "IoIn") => p = With("u16", "&mut [u8]")
           /\ (vcpu.platform = "unix" /\ tag = "IoOut") => p = With("u16", "&[u8]")
           /\ (vcpu.platform = "unix" /\ tag = "MmioRead") => p = With("u64", "&mut [u8]")
           /\ (vcpu.platform = "unix" /\ tag = "MmioWrite") => p = With("u64", "&[u8]")
           /\ vcpu.platform = "windows" => p = NoPayload

\* a run on Unix has returned an MMIO read, whose buffer the VMM is to fill
C27_Witness ==
    /\ vcpu.platform = "unix"
    /\ call.op = "run_return"
    /\ call.how = "exit"
    /\ call.result = Ok("MmioRead")
    /\ Payload(vcpu.platform, call.result.exit).data = "&mut [u8]"

\* the operations of the x86 register state and of the ARM set-up
X86Ops == {"get_regs", "set_regs", "get_sregs", "set_sregs", "get_fpu", "set_fpu",
           "get_lapic", "set_lapic", "get_msrs", "set_msrs", "set_cpuid2"}
ArmOps == {"vcpu_init", "set_one_reg"}

\* C28: once the trait is compiled for a target, the get/set operations of
\* StandardRegisters, SpecialRegisters, FpuState, LapicState and MSR batches
\* and set CpuId are present if and only if the target is x86 or x86-64,
\* vcpu_init and set_one_reg if and only if it is ARM or ARM64, and run and
\* get_run_context on every target.
C28_CapabilitiesByArch ==
    build.next > Len(TraitItems)
    => /\ \A op \in X86Ops : op \in build.caps <=> IsX86(build.arch)
       /\ \A op \in ArmOps : op \in build.caps <=> IsArm(build.arch)
       /\ {"run", "get_run_context"} \subseteq build.caps

====
